---- MODULE Spec2Model ----
(***************************************************************************)
(* Model of managedata.py: the question-bank import pipeline.              *)
(*                                                                         *)
(* Strings that the code inspects character by character (chapter labels,  *)
(* titles, source paths) are sequences of one-character strings.  JSON     *)
(* values are records; the file system under DATA_DIR is the state.        *)
(***************************************************************************)
EXTENDS Integers, Sequences, FiniteSets, TLC

VARIABLES
    now,            \* the wall clock, in whole seconds (time.time() truncated)
    dataDir,        \* DATA_DIR exists
    subjectsFile,   \* subjects.json: [exists, data]
    subjDirs,       \* the subject directories that exist under DATA_DIR
    indexFile,      \* per subject, index.json: [exists, data]
    chapFiles,      \* per subject, the chapter files: file name -> [ok, data]
    pc,             \* position of the (single) caller inside process_file_with_subject
    call,           \* arguments of the call in progress: [path, content, subject]
    all_questions,  \* local of process_file_with_subject
    chapters_map,   \* local: the groups in insertion order, <<[label, qs], ...>>
    base_time,      \* local: the run timestamp
    idx,            \* local: zero-based position in chapters_map
    log_msgs,       \* local: the log lines
    result,         \* the value returned to the caller (visible at pc = "return")
    index0,         \* history: the subject's index as it was when the call began
    imported,       \* history: subjects for which an import returned success
    budget,         \* imports that may still reach the chapter loop
    faults,         \* failures of file operations that have happened
    race            \* two overlapping update_subject_index calls: their positions
                    \* and locals, and the order of their steps

fsvars == <<dataDir, subjectsFile, subjDirs, indexFile, chapFiles>>
locals == <<all_questions, chapters_map, base_time, idx, log_msgs>>
vars == <<now, dataDir, subjectsFile, subjDirs, indexFile, chapFiles, pc, call,
          all_questions, chapters_map, base_time, idx, log_msgs,
          result, index0, imported, budget, faults, race>>

----------------------------------------------------------------------------
(* Bounds of the model *)

\* the clock runs from 0 to MaxTime
MaxTime == 1
\* number of calls of process_file_with_subject that get as far as writing chapters
MaxImports == 3
\* longest JSON list drawn as input of the extractor and the partitioner
MaxElems == 2
\* number of file operations that fail in one behaviour
MaxFaults == 1

Subjects == {"s1", "s2"}

----------------------------------------------------------------------------
(* Characters and strings *)

Digits == {"0", "1", "2", "3", "4", "5", "6", "7", "8", "9"}

IsDigit(c) == c \in Digits

DigitVal(c) ==
    CASE c = "0" -> 0 [] c = "1" -> 1 [] c = "2" -> 2 [] c = "3" -> 3
      [] c = "4" -> 4 [] c = "5" -> 5 [] c = "6" -> 6 [] c = "7" -> 7
      [] c = "8" -> 8 [] c = "9" -> 9

IsSpace(c) == c \in {" ", "\t", "\n"}

\* str.strip(): drop the leading and the trailing whitespace
RECURSIVE lstrip(_)
lstrip(s) == IF s # <<>> /\ IsSpace(Head(s)) THEN lstrip(Tail(s)) ELSE s

RECURSIVE rstrip(_)
rstrip(s) ==
    IF s # <<>> /\ IsSpace(s[Len(s)]) THEN rstrip(SubSeq(s, 1, Len(s) - 1)) ELSE s

strip(s) == rstrip(lstrip(s))

\* str.strip(ch): drop every leading and trailing occurrence of one character
RECURSIVE strip_char(_, _)
strip_char(s, ch) ==
    IF s # <<>> /\ Head(s) = ch THEN strip_char(Tail(s), ch)
    ELSE IF s # <<>> /\ s[Len(s)] = ch THEN strip_char(SubSeq(s, 1, Len(s) - 1), ch)
    ELSE s

\* int() of a run of decimal digits
RECURSIVE int(_)
int(ds) ==
    IF ds = <<>> THEN 0
    ELSE 10 * int(SubSeq(ds, 1, Len(ds) - 1)) + DigitVal(ds[Len(ds)])

\* re.findall(r'\d+', s)[0]: the first maximal run of digits, <<>> when there is none
RECURSIVE digit_prefix(_)
digit_prefix(s) ==
    IF s # <<>> /\ IsDigit(Head(s)) THEN <<Head(s)>> \o digit_prefix(Tail(s)) ELSE <<>>

RECURSIVE first_digits(_)
first_digits(s) ==
    IF s = <<>> THEN <<>>
    ELSE IF IsDigit(Head(s)) THEN digit_prefix(s)
    ELSE first_digits(Tail(s))

\* the key of an entry whose title holds no digit
NoDigitKey == 9999

\* faulty variant: the pattern \d instead of \d+, so only the first digit counts
sort_key_first_digit(item) ==
    LET nums == first_digits(item.title)
    IN  IF nums # <<>> THEN DigitVal(nums[1]) ELSE NoDigitKey

\* faulty variant: a title without digits gets the key 0
sort_key_zero_default(item) ==
    LET nums == first_digits(item.title)
    IN  IF nums # <<>> THEN int(nums) ELSE 0

sort_key(item) ==
    LET nums == first_digits(item.title)
    IN  IF nums # <<>> THEN int(nums) ELSE NoDigitKey

\* faulty variant: e is put in front of the elements with its key (not stable)
RECURSIVE insert_before_ties(_, _)
insert_before_ties(sorted, e) ==
    IF sorted = <<>> THEN <<e>>
    ELSE IF sort_key(Head(sorted)) < sort_key(e)
         THEN <<Head(sorted)>> \o insert_before_ties(Tail(sorted), e)
         ELSE <<e>> \o sorted

\* list.sort(key=...): stable, ascending.  Insert e behind every element whose key is
\* not greater.
RECURSIVE insert_sorted(_, _)
insert_sorted(sorted, e) ==
    IF sorted = <<>> THEN <<e>>
    ELSE IF sort_key(Head(sorted)) <= sort_key(e)
         THEN <<Head(sorted)>> \o insert_sorted(Tail(sorted), e)
         ELSE <<e>> \o sorted

RECURSIVE sort(_)
sort(index) ==
    IF index = <<>> THEN <<>>
    ELSE insert_sorted(sort(SubSeq(index, 1, Len(index) - 1)), index[Len(index)])

\* Path(...).stem: the final component without its last suffix
LastDot(name) ==
    IF \E i \in 1..Len(name) : name[i] = "."
    THEN CHOOSE i \in 1..Len(name) :
            name[i] = "." /\ \A j \in (i + 1)..Len(name) : name[j] # "."
    ELSE 0

stem(name) ==
    LET i == LastDot(name)
    IN  IF i > 1 /\ i < Len(name) THEN SubSeq(name, 1, i - 1) ELSE name

\* Path(str(source_path).strip('"').strip("'"))
clean_path(path) == strip_char(strip_char(path, "\""), "'")

----------------------------------------------------------------------------
(* JSON values *)

\* an element of a JSON list: a mapping (a question record) or anything else
Question(id, hasQ, hasChapter, chapter) ==
    [kind |-> "dict", qid |-> id, hasQ |-> hasQ,
     hasChapter |-> hasChapter, chapter |-> chapter]

ScalarElem ==
    [kind |-> "scalar", qid |-> 0, hasQ |-> FALSE, hasChapter |-> FALSE, chapter |-> <<>>]

\* a parsed JSON document, or a value of a top-level mapping
List(es) == [kind |-> "list", items |-> <<>>, elems |-> es]
Dict(kvs) == [kind |-> "dict", items |-> kvs, elems |-> <<>>]
Scalar == [kind |-> "scalar", items |-> <<>>, elems |-> <<>>]
\* a source file that cannot be opened or is not JSON
Unreadable == [kind |-> "unreadable", items |-> <<>>, elems |-> <<>>]

Item(k, v) == [k |-> k, v |-> v]

----------------------------------------------------------------------------
(* Extraction and partitioning *)

\* isinstance(val, list) and len(val) > 0 and isinstance(val[0], dict)
\*   and "question" in val[0]
is_question_list(val) ==
    /\ val.kind = "list"
    /\ Len(val.elems) > 0
    /\ val.elems[1].kind = "dict"
    /\ val.elems[1].hasQ

\* faulty variant: the isinstance test is missing
has_questions_key_any(content) ==
    \E i \in 1..Len(content.items) : content.items[i].k = "questions"

\* "questions" in content and isinstance(content["questions"], list)
has_questions_key(content) ==
    \E i \in 1..Len(content.items) :
        content.items[i].k = "questions" /\ content.items[i].v.kind = "list"

\* for val in content.values(): ... break
first_question_list(content) ==
    IF \E i \in 1..Len(content.items) : is_question_list(content.items[i].v)
    THEN LET i == CHOOSE i \in 1..Len(content.items) :
                    /\ is_question_list(content.items[i].v)
                    /\ \A j \in 1..(i - 1) : ~is_question_list(content.items[j].v)
         IN  content.items[i].v.elems
    ELSE <<>>

\* faulty variant: the scan of the mapping's values is missing
extract_questions_no_scan(content) ==
    IF content.kind = "dict"
    THEN IF has_questions_key(content)
         THEN LET i == CHOOSE i \in 1..Len(content.items) :
                         content.items[i].k = "questions"
              IN  content.items[i].v.elems
         ELSE <<>>
    ELSE IF content.kind = "list" THEN content.elems
    ELSE <<>>

extract_questions(content) ==
    IF content.kind = "dict"
    THEN IF has_questions_key(content)
         THEN LET i == CHOOSE i \in 1..Len(content.items) :
                         content.items[i].k = "questions"
              IN  content.items[i].v.elems
         ELSE first_question_list(content)
    ELSE IF content.kind = "list" THEN content.elems
    ELSE <<>>

\* faulty variant: the early return is missing
no_questions_never(qs) == FALSE

\* if not all_questions: return False, ...
no_questions(qs) == qs = <<>>

\* faulty variant: the label is not stripped
chapter_name_unstripped(q, fallback) ==
    LET c_name == IF q.hasChapter THEN q.chapter ELSE <<>>
    IN  IF c_name = <<>> THEN fallback ELSE c_name

\* q.get("chapter", "").strip(), replaced by the stem when empty
chapter_name(q, fallback) ==
    LET c_name == strip(IF q.hasChapter THEN q.chapter ELSE <<>>)
    IN  IF c_name = <<>> THEN fallback ELSE c_name

\* chapters_map[c_name].append(q), a new key going behind the existing ones
add_question(map, c_name, q) ==
    IF \E i \in 1..Len(map) : map[i].label = c_name
    THEN LET i == CHOOSE i \in 1..Len(map) : map[i].label = c_name
         IN  [map EXCEPT ![i].qs = Append(@, q)]
    ELSE Append(map, [label |-> c_name, qs |-> <<q>>])

RECURSIVE partition_upto(_, _, _)
partition_upto(qs, fallback, n) ==
    IF n = 0 THEN <<>>
    ELSE add_question(partition_upto(qs, fallback, n - 1),
                      chapter_name(qs[n], fallback), qs[n])

partition(qs, fallback) == partition_upto(qs, fallback, Len(qs))

\* q.get raises AttributeError on an element that is no mapping
partition_raises(qs) == \E i \in 1..Len(qs) : qs[i].kind # "dict"

----------------------------------------------------------------------------
(* Files *)

NoFile == [exists |-> FALSE, data |-> <<>>]
JsonFile(data) == [exists |-> TRUE, data |-> data]

\* a chapter file of a subject directory; ok is FALSE for a file a failed write left
ChapterFile(name, data) == [name |-> name, ok |-> TRUE, data |-> data]
BrokenFile(name) == [name |-> name, ok |-> FALSE, data |-> <<>>]

file_exists(files, name) == \E f \in files : f.name = name

\* open(target_path, 'w') + json.dump: the file is created or replaced
write_file(files, name, data) ==
    {f \in files : f.name # name} \cup {ChapterFile(name, data)}

\* f"ch_{base_time}_{idx}.json"
chapter_filename(t, i) == <<"ch", t, i>>

\* f"c_{base_time}_{idx}"
chapter_id(t, i) == <<"c", t, i>>

\* f"sub_{int(time.time())}"
subject_id(t) == <<"sub", t>>

\* time.strftime("%Y-%m-%d"): the day the second lies in
SecondsPerDay == 86400
strftime_date(t) == t \div SecondsPerDay

\* time.strftime("%Y-%m-%d %H:%M:%S"): the second itself
strftime_datetime(t) == t

----------------------------------------------------------------------------
(* ensure_setup, get_subjects, save_subjects *)

\* faulty variant: subjects.json is written whether it exists or not
registry_reset(f) == JsonFile(<<>>)

\* lines 19-21: subjects.json is created holding [] when it is absent
registry_after_setup(f) == IF f.exists THEN f ELSE JsonFile(<<>>)

ensure_setup ==
    /\ pc = "idle"
    /\ dataDir' = TRUE
    /\ subjectsFile' = registry_after_setup(subjectsFile)
    /\ UNCHANGED <<race, now, subjDirs, indexFile, chapFiles, pc, call, locals, result,
                   index0, imported, budget, faults>>

\* try: json.load(...) except: return []
get_subjects(readable) ==
    IF readable /\ subjectsFile.exists THEN subjectsFile.data ELSE <<>>

save_subjects(subjects) == JsonFile(subjects)

----------------------------------------------------------------------------
(* update_subject_index *)

\* lines 41-45: create index.json as [] when absent, then load it
load_index(s) == IF indexFile[s].exists THEN indexFile[s].data ELSE <<>>

\* faulty variant: the search never finds the title
existing_idx_none(index, title) == 0

\* lines 48-52: position of the first entry with the title, 0 for the code's -1
existing_idx(index, title) ==
    IF \E i \in 1..Len(index) : index[i].title = title
    THEN CHOOSE i \in 1..Len(index) :
            index[i].title = title /\ \A j \in 1..(i - 1) : index[j].title # title
    ELSE 0

\* faulty variant: the old file is never removed
stale_files_none(index, chapter_info, files) == {}

\* lines 56-57: the old file to remove, as a set (empty when there is none)
stale_files(index, chapter_info, files) ==
    LET e == existing_idx(index, chapter_info.title)
    IN  IF /\ e # 0
           /\ file_exists(files, index[e].file)
           /\ index[e].file # chapter_info.file
        THEN {index[e].file}
        ELSE {}

\* lines 54-62: replace in place or append
merge_entry(index, chapter_info) ==
    LET e == existing_idx(index, chapter_info.title)
    IN  IF e # 0 THEN [index EXCEPT ![e] = chapter_info]
        ELSE Append(index, chapter_info)

\* lines 47-72: the sequence that is persisted
updated_index(index, chapter_info) == sort(merge_entry(index, chapter_info))

\* line 74: the value returned
index_length(index, chapter_info) == Len(updated_index(index, chapter_info))

\* the whole call; removed says whether os.remove succeeded
update_subject_index(s, chapter_info, removed) ==
    LET index == load_index(s)
        stale == stale_files(index, chapter_info, chapFiles[s])
    IN  /\ indexFile' = [indexFile EXCEPT ![s] = JsonFile(updated_index(index, chapter_info))]
        /\ chapFiles' = [chapFiles EXCEPT ![s] =
                            IF removed THEN {f \in @ : f.name \notin stale} ELSE @]

----------------------------------------------------------------------------
(* process_file_with_subject *)

\* a file operation fails
Fault ==
    /\ faults < MaxFaults
    /\ faults' = faults + 1

\* the two callers of update_subject_index when calls overlap
Threads == {1, 2}

NoInfo == [id |-> <<>>, title |-> <<>>, file |-> <<>>, count |-> 0, updated_at |-> 0]

\* no update_subject_index call of a second caller is in progress
NoRace ==
    [th |-> [t \in Threads |-> [at |-> "off", info |-> NoInfo, index |-> <<>>, ret |-> 0]],
     trace |-> <<>>]

NoCall == [path |-> <<>>, content |-> Scalar, subject |-> "none"]
NoResult == [ok |-> FALSE, msg |-> "none", log |-> <<>>]
Returned(ok, msg, log) == [ok |-> ok, msg |-> msg, log |-> log]

\* the caller invokes process_file_with_subject(path, subject)
Call(inp, s) ==
    /\ pc = "idle"
    /\ budget > 0
    /\ call' = [path |-> inp.path, content |-> inp.content, subject |-> s]
    /\ index0' = load_index(s)
    /\ pc' = "read"
    /\ UNCHANGED <<race, now, fsvars, locals, result, imported, budget, faults>>

\* lines 85-124: read, extract, prepare the directory, partition, take the timestamp
process_begin ==
    /\ pc = "read"
    /\ LET source_path == clean_path(call.path)
           qs == extract_questions(call.content)
       IN  IF call.content.kind = "unreadable"
           THEN /\ result' = Returned(FALSE, "read_failed", <<>>)
                /\ pc' = "return"
                /\ UNCHANGED <<fsvars, locals>>
           ELSE IF no_questions(qs)
           THEN /\ result' = Returned(FALSE, "no_data", <<>>)
                /\ pc' = "return"
                /\ UNCHANGED <<fsvars, locals>>
           ELSE /\ dataDir' = TRUE
                /\ subjDirs' = subjDirs \cup {call.subject}
                /\ UNCHANGED <<subjectsFile, indexFile, chapFiles>>
                /\ IF partition_raises(qs)
                   THEN /\ result' = Returned(FALSE, "raised", <<>>)
                        /\ pc' = "return"
                        /\ UNCHANGED locals
                   ELSE /\ all_questions' = qs
                        /\ chapters_map' = partition(qs, stem(source_path))
                        /\ base_time' = now
                        /\ idx' = 0
                        /\ log_msgs' = <<>>
                        /\ result' = result
                        /\ pc' = "chapter"
    /\ budget' = IF pc' = "chapter" THEN budget - 1 ELSE budget
    /\ UNCHANGED <<race, now, call, index0, imported, faults>>

\* faulty variant: the index is updated for a chapter whose file is not written
write_chapter_skipped ==
    /\ pc = "chapter"
    /\ idx < Len(chapters_map)
    /\ pc' = "index"
    /\ UNCHANGED <<race, now, fsvars, call, locals, result, index0, imported, budget,
                   faults>>

\* lines 127-133: the chapter file is written
write_chapter ==
    /\ pc = "chapter"
    /\ idx < Len(chapters_map)
    /\ LET q_list == chapters_map[idx + 1].qs
           new_filename == chapter_filename(base_time, idx)
       IN  chapFiles' = [chapFiles EXCEPT ![call.subject] = write_file(@, new_filename, q_list)]
    /\ pc' = "index"
    /\ UNCHANGED <<race, now, dataDir, subjectsFile, subjDirs, indexFile, call, locals,
                   result, index0, imported, budget, faults>>

\* faulty variant: the except branch logs the error but does not skip the chapter
write_chapter_fails_no_continue ==
    /\ pc = "chapter"
    /\ idx < Len(chapters_map)
    /\ UNCHANGED chapFiles
    /\ log_msgs' = Append(log_msgs, [ok |-> FALSE, title |-> chapters_map[idx + 1].label,
                                     count |-> 0])
    /\ pc' = "index"
    /\ faults < MaxFaults
    /\ faults' = faults + 1
    /\ UNCHANGED <<race, now, dataDir, subjectsFile, subjDirs, indexFile, call,
                   all_questions, chapters_map, base_time, idx, result, index0,
                   imported, budget>>

\* lines 131-136: the write raises; the file is left as it was (open failed) or
\* broken (the dump failed half way); the chapter is logged and skipped
write_chapter_fails ==
    /\ pc = "chapter"
    /\ idx < Len(chapters_map)
    /\ LET new_filename == chapter_filename(base_time, idx)
       IN  \/ UNCHANGED chapFiles
           \/ chapFiles' = [chapFiles EXCEPT ![call.subject] =
                               {f \in @ : f.name # new_filename}
                                   \cup {BrokenFile(new_filename)}]
    /\ log_msgs' = Append(log_msgs, [ok |-> FALSE, title |-> chapters_map[idx + 1].label,
                                     count |-> 0])
    /\ idx' = idx + 1
    /\ Fault
    /\ UNCHANGED <<race, now, dataDir, subjectsFile, subjDirs, indexFile, pc, call,
                   all_questions, chapters_map, base_time, result, index0, imported,
                   budget>>

\* lines 139-145
chap_info ==
    [id |-> chapter_id(base_time, idx),
     title |-> chapters_map[idx + 1].label,
     file |-> chapter_filename(base_time, idx),
     count |-> Len(chapters_map[idx + 1].qs),
     updated_at |-> strftime_datetime(now)]

\* lines 139-148: the index is updated and the chapter logged
index_chapter(removed) ==
    /\ pc = "index"
    /\ update_subject_index(call.subject, chap_info, removed)
    /\ log_msgs' = Append(log_msgs, [ok |-> TRUE, title |-> chap_info.title,
                                     count |-> chap_info.count])
    /\ idx' = idx + 1
    /\ pc' = "chapter"
    /\ IF removed THEN UNCHANGED faults
       ELSE /\ stale_files(load_index(call.subject), chap_info,
                           chapFiles[call.subject]) # {}
            /\ Fault
    /\ UNCHANGED <<race, now, dataDir, subjectsFile, subjDirs, call, all_questions,
                   chapters_map, base_time, result, index0, imported, budget>>

\* faulty variant: the entry is appended without looking for the name
upsert_always_append(subjects, subject_name, t) ==
    Append(subjects, [id |-> subject_id(t),
                      name |-> subject_name,
                      dir |-> subject_name,
                      created_at |-> strftime_date(t),
                      updated_at |-> strftime_datetime(t)])

\* lines 153-164: the registry with the subject's entry created or refreshed
upsert_subject(subjects, subject_name, t) ==
    IF \E i \in 1..Len(subjects) : subjects[i].name = subject_name
    THEN LET i == CHOOSE i \in 1..Len(subjects) :
                    /\ subjects[i].name = subject_name
                    /\ \A j \in 1..(i - 1) : subjects[j].name # subject_name
         IN  [subjects EXCEPT ![i].updated_at = strftime_datetime(t)]
    ELSE Append(subjects, [id |-> subject_id(t),
                           name |-> subject_name,
                           dir |-> subject_name,
                           created_at |-> strftime_date(t),
                           updated_at |-> strftime_datetime(t)])

\* lines 150-167: the registry is read, upserted and saved; the call returns
update_registry(readable) ==
    /\ pc = "chapter"
    /\ idx = Len(chapters_map)
    /\ subjectsFile' = save_subjects(upsert_subject(get_subjects(readable),
                                                    call.subject, now))
    /\ result' = Returned(TRUE, "done", log_msgs)
    /\ imported' = imported \cup {call.subject}
    /\ pc' = "return"
    /\ IF readable THEN UNCHANGED faults ELSE Fault
    /\ UNCHANGED <<race, now, dataDir, subjDirs, indexFile, chapFiles, call, locals,
                   index0, budget>>

\* the caller takes the result
return_to_caller ==
    /\ pc = "return"
    /\ pc' = "idle"
    /\ call' = NoCall
    /\ result' = NoResult
    /\ index0' = <<>>
    /\ all_questions' = <<>>
    /\ chapters_map' = <<>>
    /\ base_time' = 0
    /\ idx' = 0
    /\ log_msgs' = <<>>
    /\ UNCHANGED <<race, now, fsvars, imported, budget, faults>>

\* a second passes
Tick ==
    /\ now < MaxTime
    /\ now' = now + 1
    /\ UNCHANGED <<race, fsvars, pc, call, locals, result, index0, imported, budget,
                   faults>>

----------------------------------------------------------------------------
(* Inputs *)

\* source paths: b.j, the same in quotes, and c2.j in single quotes
PathB == <<"b", ".", "j">>
PathQuotedB == <<"\"", "b", ".", "j", "\"">>
PathC2 == <<"'", "c", "2", ".", "j", "'">>

\* question records; the numbers are their identities
Q2 == Question(2, TRUE, TRUE, <<"2">>)
Q2sp == Question(3, TRUE, TRUE, <<" ", "2", "\t">>)
QI == Question(4, TRUE, TRUE, <<"I">>)
QI2 == Question(5, FALSE, TRUE, <<"I">>)
QBig == Question(6, TRUE, TRUE, <<"1", "0", "0", "0", "0">>)
QNone == Question(7, TRUE, FALSE, <<>>)
QBlank == Question(8, TRUE, TRUE, <<" ">>)
QEmpty == Question(9, FALSE, TRUE, <<>>)

\* the source files the imports of Spec draw from
Accepted ==
    { [path |-> PathQuotedB, content |-> Dict(<<Item("questions", List(<<Q2, QI>>))>>)],
      [path |-> PathB, content |-> Dict(<<Item("n", Scalar),
                                         Item("cat_a", List(<<QI, Q2sp, QI2>>))>>)],
      [path |-> PathC2, content |-> List(<<QBig, QNone, QBlank>>)] }

Rejected ==
    { [path |-> PathB, content |-> Dict(<<>>)],
      [path |-> PathB, content |-> List(<<>>)],
      [path |-> PathB, content |-> Scalar],
      [path |-> PathB, content |-> Dict(<<Item("cat_a", List(<<QI2, Q2>>)),
                                         Item("cat_b", List(<<ScalarElem>>))>>)],
      [path |-> PathB, content |-> Dict(<<Item("questions", List(<<>>)),
                                         Item("cat_a", List(<<Q2>>))>>)] }

Failing ==
    { [path |-> PathB, content |-> Unreadable],
      [path |-> PathB, content |-> List(<<Q2, ScalarElem>>)] }

Fixtures == Accepted \cup Rejected \cup Failing

----------------------------------------------------------------------------
(* Specifications *)

Init ==
    /\ now = 0
    /\ dataDir = FALSE
    /\ subjectsFile = NoFile
    /\ subjDirs = {}
    /\ indexFile = [s \in Subjects |-> NoFile]
    /\ chapFiles = [s \in Subjects |-> {}]
    /\ pc = "idle"
    /\ call = NoCall
    /\ all_questions = <<>>
    /\ chapters_map = <<>>
    /\ base_time = 0
    /\ idx = 0
    /\ log_msgs = <<>>
    /\ result = NoResult
    /\ index0 = <<>>
    /\ imported = {}
    /\ budget = MaxImports
    /\ faults = 0
    /\ race = NoRace

Import == \E inp \in Fixtures, s \in Subjects : Call(inp, s)

\* every file operation succeeds
Next ==
    \/ Tick
    \/ ensure_setup
    \/ Import
    \/ process_begin
    \/ write_chapter
    \/ index_chapter(TRUE)
    \/ update_registry(TRUE)
    \/ return_to_caller

Spec == Init /\ [][Next]_vars

\* the failures the code catches can happen too: a chapter write that raises, an
\* os.remove that raises, a registry that cannot be read
NextF ==
    \/ Next
    \/ write_chapter_fails
    \/ index_chapter(FALSE)
    \/ update_registry(FALSE)

SpecF == Init /\ [][NextF]_vars

\* imports into one subject, during which chapter writes can raise
ImportOne == \E inp \in Accepted : Call(inp, "s1")

NextW ==
    \/ Tick
    \/ ImportOne
    \/ process_begin
    \/ write_chapter
    \/ write_chapter_fails
    \/ index_chapter(TRUE)
    \/ update_registry(TRUE)
    \/ return_to_caller

SpecW == Init /\ [][NextW]_vars

----------------------------------------------------------------------------
(* The extractor and the partitioner on generated inputs *)

PureElems == {Q2, Q2sp, QI2, QNone, QBlank, QEmpty, ScalarElem}

PureLists == UNION {[1..n -> PureElems] : n \in 0..MaxElems}

PureKeys == {"questions", "cat_a", "cat_b"}

PureValues ==
    {Scalar, List(<<>>), List(<<Q2>>), List(<<QI2>>), List(<<ScalarElem>>),
     List(<<Q2sp, QNone>>)}

PureContents ==
    {List(L) : L \in PureLists}
        \cup {Dict(<<Item(k, List(L))>>) : k \in {"questions", "cat_a"}, L \in PureLists}
        \cup {Dict(<<Item(ks[1], v1), Item(ks[2], v2)>>) :
                 ks \in {p \in PureKeys \X PureKeys : p[1] # p[2]},
                 v1 \in PureValues, v2 \in PureValues}
        \cup {Scalar, Unreadable, Dict(<<>>), Dict(<<Item("questions", Scalar)>>)}

PureInputs == {[path |-> p, content |-> c] : p \in {PathB, PathC2}, c \in PureContents}

\* one call, on an empty data directory, for every generated input
InitPure ==
    /\ now = 0
    /\ dataDir = FALSE
    /\ subjectsFile = NoFile
    /\ subjDirs = {}
    /\ indexFile = [s \in Subjects |-> NoFile]
    /\ chapFiles = [s \in Subjects |-> {}]
    /\ pc = "read"
    /\ \E inp \in PureInputs :
           call = [path |-> inp.path, content |-> inp.content, subject |-> "s1"]
    /\ all_questions = <<>>
    /\ chapters_map = <<>>
    /\ base_time = 0
    /\ idx = 0
    /\ log_msgs = <<>>
    /\ result = NoResult
    /\ index0 = <<>>
    /\ imported = {}
    /\ budget = 1
    /\ faults = 0
    /\ race = NoRace

NextPure == process_begin

SpecPure == InitPure /\ [][NextPure]_vars

----------------------------------------------------------------------------
(* Two update_subject_index calls on one subject that are not serialized *)

RaceSubject == "s1"

\* the caller has taken one step of update_subject_index
race_step(t, at, index, ret) ==
    race' = [th |-> [race.th EXCEPT ![t] = [at |-> at, info |-> @.info,
                                           index |-> index, ret |-> ret]],
             trace |-> Append(race.trace, <<t, race.th[t].at>>)]

\* line 41: does index.json exist
race_check(t) ==
    /\ race.th[t].at = "check"
    /\ race_step(t, IF indexFile[RaceSubject].exists THEN "load" ELSE "create", <<>>, 0)
    /\ UNCHANGED <<now, fsvars, pc, call, locals, result, index0, imported, budget,
                   faults>>

\* line 42: index.json is written as []
race_create(t) ==
    /\ race.th[t].at = "create"
    /\ indexFile' = [indexFile EXCEPT ![RaceSubject] = JsonFile(<<>>)]
    /\ race_step(t, "load", <<>>, 0)
    /\ UNCHANGED <<now, dataDir, subjectsFile, subjDirs, chapFiles, pc, call, locals,
                   result, index0, imported, budget, faults>>

\* lines 44-45: index.json is read into the local index
race_load(t) ==
    /\ race.th[t].at = "load"
    /\ race_step(t, "persist", load_index(RaceSubject), 0)
    /\ UNCHANGED <<now, fsvars, pc, call, locals, result, index0, imported, budget,
                   faults>>

\* faulty variant: the index is read again at the moment it is written back
race_persist_reloads(t) ==
    /\ race.th[t].at = "persist"
    /\ LET index == load_index(RaceSubject)
           info == race.th[t].info
           stale == stale_files(index, info, chapFiles[RaceSubject])
       IN  /\ indexFile' = [indexFile EXCEPT ![RaceSubject] =
                                JsonFile(updated_index(index, info))]
           /\ chapFiles' = [chapFiles EXCEPT ![RaceSubject] =
                                {f \in @ : f.name \notin stale}]
           /\ race_step(t, "done", index, index_length(index, info))
    /\ UNCHANGED <<now, dataDir, subjectsFile, subjDirs, pc, call, locals, result,
                   index0, imported, budget, faults>>

\* lines 47-74: the local index is merged, sorted, written back, its length returned
race_persist(t) ==
    /\ race.th[t].at = "persist"
    /\ LET index == race.th[t].index
           info == race.th[t].info
           stale == stale_files(index, info, chapFiles[RaceSubject])
       IN  /\ indexFile' = [indexFile EXCEPT ![RaceSubject] =
                                JsonFile(updated_index(index, info))]
           /\ chapFiles' = [chapFiles EXCEPT ![RaceSubject] =
                                {f \in @ : f.name \notin stale}]
           /\ race_step(t, "done", index, index_length(index, info))
    /\ UNCHANGED <<now, dataDir, subjectsFile, subjDirs, pc, call, locals, result,
                   index0, imported, budget, faults>>

\* the entry a caller carries: it began in second t - 1 and its chapter file,
\* the first of its run, is written
RaceInfo(t, title) ==
    [id |-> chapter_id(t - 1, 0),
     title |-> title,
     file |-> chapter_filename(t - 1, 0),
     count |-> 1,
     updated_at |-> strftime_datetime(t - 1)]

\* titles the two callers bring
RaceTitles == {<<"1">>, <<"3">>, <<"b">>, <<"1", "0", "0", "0", "0">>}

\* entries left by an import of second 0 with three chapters, of which the second
\* and the third were titled 2 and I
Entry2 ==
    [id |-> chapter_id(0, 1), title |-> <<"2">>, file |-> chapter_filename(0, 1),
     count |-> 1, updated_at |-> strftime_datetime(0)]
EntryI ==
    [id |-> chapter_id(0, 2), title |-> <<"I">>, file |-> chapter_filename(0, 2),
     count |-> 1, updated_at |-> strftime_datetime(0)]

\* the index.json the two calls find: none, or one with one or two entries
RaceIndexes == {NoFile, JsonFile(<<Entry2>>), JsonFile(<<Entry2, EntryI>>)}

\* both callers stand at the call of update_subject_index for the same subject,
\* each with its chapter file written and a title the index does not hold
InitRace ==
    /\ now = 1
    /\ dataDir = TRUE
    /\ subjDirs = {RaceSubject}
    /\ \E f \in RaceIndexes :
          /\ indexFile = [s \in Subjects |-> IF s = RaceSubject THEN f ELSE NoFile]
          /\ subjectsFile = IF f.exists
                            THEN save_subjects(upsert_subject(<<>>, RaceSubject, 0))
                            ELSE NoFile
          /\ index0 = f.data
          /\ chapFiles = [s \in Subjects |->
                             IF s = RaceSubject
                             THEN {ChapterFile(f.data[i].file, <<Q2>>) :
                                      i \in 1..Len(f.data)}
                                  \cup {ChapterFile(chapter_filename(t - 1, 0), <<Q2>>) :
                                           t \in Threads}
                             ELSE {}]
          /\ imported = IF f.exists THEN {RaceSubject} ELSE {}
    /\ \E ts \in {p \in RaceTitles \X RaceTitles : p[1] # p[2]} :
          race = [th |-> [t \in Threads |->
                             [at |-> "check", info |-> RaceInfo(t, ts[t]),
                              index |-> <<>>, ret |-> 0]],
                  trace |-> <<>>]
    /\ pc = "threads"
    /\ call = NoCall
    /\ all_questions = <<>>
    /\ chapters_map = <<>>
    /\ base_time = 0
    /\ idx = 0
    /\ log_msgs = <<>>
    /\ result = NoResult
    /\ budget = 0
    /\ faults = 0

NextRace ==
    \E t \in Threads :
        \/ race_check(t)
        \/ race_create(t)
        \/ race_load(t)
        \/ race_persist(t)

SpecRace == InitRace /\ [][NextRace]_vars

----------------------------------------------------------------------------
(* Vocabulary of the properties *)

Index(s) == indexFile[s].data
Registry == subjectsFile.data

Titles(index) == {index[i].title : i \in 1..Len(index)}
EntryOf(index, title) == index[CHOOSE i \in 1..Len(index) : index[i].title = title]

\* an import that has just returned success
Completed == pc = "return" /\ result.ok

\* the first integer literal of a title, read off the positions of its digits
HasDigit(t) == \E i \in 1..Len(t) : t[i] \in Digits

RECURSIVE Pow10(_)
Pow10(n) == IF n = 0 THEN 1 ELSE 10 * Pow10(n - 1)

RECURSIVE PlaceSum(_, _, _)
PlaceSum(t, a, b) ==
    IF a > b THEN 0 ELSE DigitVal(t[a]) * Pow10(b - a) + PlaceSum(t, a + 1, b)

FirstInt(t) ==
    LET a == CHOOSE i \in 1..Len(t) :
                t[i] \in Digits /\ \A j \in 1..(i - 1) : t[j] \notin Digits
        b == CHOOSE i \in a..Len(t) :
                /\ \A j \in a..i : t[j] \in Digits
                /\ (i = Len(t) \/ t[i + 1] \notin Digits)
    IN  PlaceSum(t, a, b)

\* the moment an entry was made: run timestamp, then position in the run
MadeBefore(e1, e2) ==
    \/ e1.id[2] < e2.id[2]
    \/ e1.id[2] = e2.id[2] /\ e1.id[3] < e2.id[3]

----------------------------------------------------------------------------
(* C1-C6: the chapter index *)

\* C1: when an import that produced title t returns, the index holds exactly one
\* entry titled t, with the file and count this import generated, and the file the
\* index named for t before the import is gone unless the name is the same.
C1_ReimportReplaces ==
    Completed =>
        \A k \in 1..Len(chapters_map) :
            LET t == chapters_map[k].label
                index == Index(call.subject)
                new_file == chapter_filename(base_time, k - 1)
            IN  /\ Cardinality({i \in 1..Len(index) : index[i].title = t}) = 1
                /\ EntryOf(index, t).file = new_file
                /\ EntryOf(index, t).count = Len(chapters_map[k].qs)
                /\ (t \in Titles(index0) /\ EntryOf(index0, t).file # new_file)
                       => ~file_exists(chapFiles[call.subject], EntryOf(index0, t).file)

\* C2: between imports, no two entries of one index with different titles name the
\* same chapter file.
C2_FilenamesUnique ==
    pc = "idle" =>
        \A s \in Subjects : \A i, j \in 1..Len(Index(s)) :
            Index(s)[i].title # Index(s)[j].title => Index(s)[i].file # Index(s)[j].file

\* C3: no two entries of one index have the same title.
C3_TitlesUnique ==
    \A s \in Subjects : \A i, j \in 1..Len(Index(s)) :
        i # j => Index(s)[i].title # Index(s)[j].title

\* an import re-imported a title into an index of several entries
C3_Witness ==
    /\ Completed
    /\ Len(Index(call.subject)) >= 2
    /\ \E k \in 1..Len(chapters_map) : chapters_map[k].label \in Titles(index0)

\* C4: every persisted index is ascending in the first integer of the titles, over
\* the entries whose titles hold a digit.
C4_NumericOrder ==
    \A s \in Subjects : \A i, j \in 1..Len(Index(s)) :
        (i < j /\ HasDigit(Index(s)[i].title) /\ HasDigit(Index(s)[j].title))
            => FirstInt(Index(s)[i].title) <= FirstInt(Index(s)[j].title)

\* three numbered entries, one of which was made last and stands first
C4_Witness ==
    \E s \in Subjects :
        /\ Cardinality({i \in 1..Len(Index(s)) : HasDigit(Index(s)[i].title)}) >= 3
        /\ \E i, j \in 1..Len(Index(s)) :
              /\ i < j
              /\ HasDigit(Index(s)[i].title) /\ HasDigit(Index(s)[j].title)
              /\ FirstInt(Index(s)[i].title) < FirstInt(Index(s)[j].title)
              /\ MadeBefore(Index(s)[j], Index(s)[i])

\* C5 as stated: an entry without a digit stands after every entry with a digit,
\* whatever its number.
C5_NoDigitLast ==
    \A s \in Subjects : \A i, j \in 1..Len(Index(s)) :
        (~HasDigit(Index(s)[i].title) /\ HasDigit(Index(s)[j].title)) => j < i

\* C5 amended: an entry without a digit stands after every entry whose first
\* integer is below 9999, the key the code gives a title without digits.
C5_NoDigitAfterSmall ==
    \A s \in Subjects : \A i, j \in 1..Len(Index(s)) :
        (/\ ~HasDigit(Index(s)[i].title)
         /\ HasDigit(Index(s)[j].title)
         /\ FirstInt(Index(s)[j].title) < NoDigitKey) => j < i

\* an entry without a digit that was made before a numbered entry and stands after it
C5_Witness ==
    \E s \in Subjects : \E i, j \in 1..Len(Index(s)) :
        /\ ~HasDigit(Index(s)[i].title)
        /\ HasDigit(Index(s)[j].title)
        /\ FirstInt(Index(s)[j].title) < NoDigitKey
        /\ MadeBefore(Index(s)[i], Index(s)[j])
        /\ j < i

\* C6: between imports, the count of every entry is the number of records in the
\* chapter file the entry names.
C6_CountMatchesFile ==
    pc = "idle" =>
        \A s \in Subjects : \A i \in 1..Len(Index(s)) : \A f \in chapFiles[s] :
            f.name = Index(s)[i].file => Len(f.data) = Index(s)[i].count

----------------------------------------------------------------------------
(* C7-C8: rejection and the subject registry *)

\* a list value that the scan of a mapping's values accepts
Qualifies(v) ==
    v.kind = "list" /\ v.elems # <<>> /\ v.elems[1].kind = "dict" /\ v.elems[1].hasQ

\* the contents the claim lists: {}, [], a scalar, a mapping with no qualifying list,
\* a mapping whose "questions" list is empty
EmptyShape(c) ==
    \/ c.kind = "scalar"
    \/ c.kind = "list" /\ c.elems = <<>>
    \/ c.kind = "dict" /\ c.items = <<>>
    \/ /\ c.kind = "dict"
       /\ \E i \in 1..Len(c.items) : c.items[i].k = "questions" /\ c.items[i].v = List(<<>>)
    \/ /\ c.kind = "dict"
       /\ \A i \in 1..Len(c.items) :
              /\ ~(c.items[i].k = "questions" /\ c.items[i].v.kind = "list")
              /\ ~Qualifies(c.items[i].v)

\* C7: a call whose content extracts to nothing returns (false, no data) and no step
\* of it changes the registry, an index, a chapter file or the set of directories.
C7_RejectWritesNothing ==
    [][ /\ (pc = "idle" /\ pc' = "read" /\ EmptyShape(call'.content))
            => UNCHANGED fsvars
        /\ (pc \in {"read", "return"} /\ EmptyShape(call.content))
            => /\ UNCHANGED fsvars
               /\ pc' \in {"read", "return", "idle"}
               /\ (pc = "read" /\ pc' = "return")
                      => result' = Returned(FALSE, "no_data", <<>>) ]_vars

\* a mapping with an empty "questions" list and a qualifying list beside it was
\* rejected after another subject had been imported
C7_Witness ==
    /\ pc = "return"
    /\ result = Returned(FALSE, "no_data", <<>>)
    /\ call.content.kind = "dict"
    /\ Len(call.content.items) = 2
    /\ imported # {}
    /\ call.subject \notin imported

RegistryNames == {Registry[i].name : i \in 1..Len(Registry)}

----------------------------------------------------------------------------
(* C9-C10: extraction and partitioning *)

\* a non-empty list of question records whose first record has the key "question"
QuestionRecords(L) ==
    /\ L # <<>>
    /\ \A i \in 1..Len(L) : L[i].kind = "dict"
    /\ L[1].hasQ

\* content is the bare list L, {"questions": L} or {k: L}
WrapsList(c, L) ==
    \/ c.kind = "list" /\ c.elems = L
    \/ /\ c.kind = "dict"
       /\ Len(c.items) = 1
       /\ c.items[1].v.kind = "list"
       /\ c.items[1].v.elems = L

\* C9: the bare list, the wrapped form and the keyed form of a list of question
\* records all extract to that list, unchanged.
C9_ShapesExtractAlike ==
    \A L \in PureLists :
        (pc # "read" /\ QuestionRecords(L) /\ WrapsList(call.content, L))
            => pc = "chapter" /\ all_questions = L

\* the keyed form of a two-record list was extracted
C9_Witness ==
    /\ pc = "chapter"
    /\ call.content.kind = "dict"
    /\ Len(call.content.items) = 1
    /\ call.content.items[1].k = "cat_a"
    /\ Len(all_questions) = MaxElems
    /\ all_questions = call.content.items[1].v.elems

\* the stems of the source paths
StemOf(path) ==
    CASE path = PathB -> <<"b">>
      [] path = PathQuotedB -> <<"b">>
      [] path = PathC2 -> <<"c", "2">>

\* the chapter field without its surrounding whitespace, read off the positions of
\* the characters that are not whitespace
Trimmed(raw) ==
    LET solid == {i \in 1..Len(raw) : raw[i] \notin {" ", "\t", "\n"}}
    IN  IF solid = {} THEN <<>>
        ELSE SubSeq(raw, CHOOSE a \in solid : \A i \in solid : a <= i,
                         CHOOSE b \in solid : \A i \in solid : i <= b)

LabelOf(q, path) ==
    LET t == Trimmed(IF q.hasChapter THEN q.chapter ELSE <<>>)
    IN  IF t = <<>> THEN StemOf(path) ELSE t

FirstAt(qs, path, label) ==
    CHOOSE k \in 1..Len(qs) :
        LabelOf(qs[k], path) = label /\ \A m \in 1..(k - 1) : LabelOf(qs[m], path) # label

RECURSIVE SumSizes(_, _)
SumSizes(map, n) == IF n = 0 THEN 0 ELSE Len(map[n].qs) + SumSizes(map, n - 1)

\* C10: the groups are labelled by the trimmed chapter field or the stem; each group
\* is the questions of its label in input order; labels are distinct and stand in
\* first-seen order; the sizes add up; questions without chapters make one group
\* labelled by the stem.
C10_Partition ==
    pc = "chapter" =>
        LET qs == all_questions
            map == chapters_map
            HasLabel(l) == LET Test(q) == LabelOf(q, call.path) = l IN SelectSeq(qs, Test)
        IN  /\ {map[g].label : g \in 1..Len(map)}
                   = {LabelOf(qs[k], call.path) : k \in 1..Len(qs)}
            /\ \A g \in 1..Len(map) : map[g].qs = HasLabel(map[g].label)
            /\ \A g, h \in 1..Len(map) :
                  g < h => /\ map[g].label # map[h].label
                           /\ FirstAt(qs, call.path, map[g].label)
                                  < FirstAt(qs, call.path, map[h].label)
            /\ SumSizes(map, Len(map)) = Len(qs)
            /\ (\A k \in 1..Len(qs) : ~qs[k].hasChapter)
                   => Len(map) = 1 /\ map[1].label = StemOf(call.path)

\* a trimmed label and the stem both label a group
C10_Witness ==
    /\ pc = "chapter"
    /\ Len(chapters_map) = 2
    /\ \E k \in 1..Len(all_questions) :
          all_questions[k].hasChapter
              /\ all_questions[k].chapter \notin {<<>>, LabelOf(all_questions[k], call.path)}
              /\ LabelOf(all_questions[k], call.path) # StemOf(call.path)
    /\ \E k \in 1..Len(all_questions) : ~all_questions[k].hasChapter

----------------------------------------------------------------------------
(* C11: a chapter write that fails *)

\* the entry of a title in an index, as a set: empty when the title is absent
Entries(index, title) == {index[i] : i \in {j \in 1..Len(index) : index[j].title = title}}

\* C11: the step on which a chapter's write fails changes no index and no registry,
\* deletes no file, logs one error line for the chapter and moves on to the next
\* chapter; a chapter reaches the index step only with its file written; and when
\* the import returns it returns success, with one line per chapter in order, the
\* title of a failed line indexed as it was before the import, the title of a
\* success line indexed with the file and count of this import, and the subject
\* registered.
C11_PartialWriteFailure ==
    /\ [][ (pc = "chapter" /\ idx < Len(chapters_map) /\ faults' # faults)
              => /\ indexFile' = indexFile
                 /\ subjectsFile' = subjectsFile
                 /\ \A f \in chapFiles[call.subject] :
                        file_exists(chapFiles'[call.subject], f.name)
                 /\ log_msgs' = Append(log_msgs, [ok |-> FALSE,
                                                  title |-> chapters_map[idx + 1].label,
                                                  count |-> 0])
                 /\ pc' = "chapter"
                 /\ idx' = idx + 1
                 /\ chapters_map' = chapters_map ]_vars
    /\ [](pc = "index"
             => ChapterFile(chapter_filename(base_time, idx), chapters_map[idx + 1].qs)
                    \in chapFiles[call.subject])
    /\ [](pc = "return" /\ chapters_map # <<>>
             => /\ result.ok
                /\ call.subject \in RegistryNames
                /\ Len(result.log) = Len(chapters_map)
                /\ \A k \in 1..Len(chapters_map) :
                      LET line == result.log[k]
                          t == chapters_map[k].label
                          index == Index(call.subject)
                      IN  /\ line.title = t
                          /\ IF line.ok
                             THEN /\ line.count = Len(chapters_map[k].qs)
                                  /\ t \in Titles(index)
                                  /\ EntryOf(index, t).file
                                         = chapter_filename(base_time, k - 1)
                                  /\ EntryOf(index, t).count = Len(chapters_map[k].qs)
                             ELSE Entries(index, t) = Entries(index0, t))

\* an import returned after the write of a chapter already indexed failed and a
\* later chapter was written and indexed; the old file of the failed title is there
C11_Witness ==
    /\ Completed
    /\ \E k, m \in 1..Len(result.log) :
          /\ k < m
          /\ ~result.log[k].ok
          /\ result.log[m].ok
          /\ result.log[k].title \in Titles(index0)
          /\ file_exists(chapFiles[call.subject],
                         EntryOf(index0, result.log[k].title).file)
          /\ EntryOf(index0, result.log[k].title).file
                 # chapter_filename(base_time, k - 1)

----------------------------------------------------------------------------
(* C12: overlapping update_subject_index calls *)

\* both calls have returned
RaceDone == \A t \in Threads : race.th[t].at = "done"

\* the position in the order of steps at which caller t took the step
StepAt(t, step) == CHOOSE k \in 1..Len(race.trace) : race.trace[k] = <<t, step>>

\* one call ran from its first step to its last before the other began
RaceSequential ==
    \E a, b \in Threads :
        /\ a # b
        /\ \A k, m \in 1..Len(race.trace) :
              (race.trace[k][1] = a /\ race.trace[m][1] = b) => k < m

\* both calls loaded index.json before either wrote it back
RaceOverlapped ==
    \A a, b \in Threads : StepAt(a, "load") < StepAt(b, "persist")

\* the caller whose write came last
LastWriter ==
    CHOOSE a \in Threads :
        \A b \in Threads : StepAt(b, "persist") <= StepAt(a, "persist")

\* C12: when both calls have returned, both chapter files exist; if the calls ran
\* one after the other the index holds the entries it had and both new entries;
\* if both loaded before either persisted, it holds the entries it had and only
\* the entry of the call that persisted last.
C12_LostUpdate ==
    RaceDone =>
        LET index == Index(RaceSubject)
            info(t) == race.th[t].info
        IN  /\ \A t \in Threads : file_exists(chapFiles[RaceSubject], info(t).file)
            /\ \A i \in 1..Len(index0) : index0[i] \in Entries(index, index0[i].title)
            /\ RaceSequential
                  => /\ \A t \in Threads : Entries(index, info(t).title) = {info(t)}
                     /\ Len(index) = Len(index0) + 2
            /\ RaceOverlapped
                  => /\ \A t \in Threads :
                           Entries(index, info(t).title)
                               = IF t = LastWriter THEN {info(t)} ELSE {}
                     /\ Len(index) = Len(index0) + 1

\* both calls loaded a two-entry index before either persisted and have returned:
\* the index has three entries, both calls returned 3, and both files are there
C12_Witness ==
    /\ RaceDone
    /\ RaceOverlapped
    /\ Len(index0) = 2
    /\ Len(Index(RaceSubject)) = 3
    /\ \A t \in Threads :
          /\ race.th[t].ret = 3
          /\ file_exists(chapFiles[RaceSubject], race.th[t].info.file)
    /\ \E t \in Threads : race.th[t].info.title \notin Titles(Index(RaceSubject))

----------------------------------------------------------------------------
(* C13: ensure_setup *)

\* C13: a call of ensure_setup between imports leaves the root directory and the
\* registry file existing; a registry that existed keeps its contents, one that
\* was absent holds the empty array; subject directories, indexes and chapter
\* files are as they were; and once the root directory and the registry exist, a
\* call of ensure_setup changes nothing.
C13_SetupIdempotent ==
    /\ [][ (pc = "idle" /\ pc' = "idle" /\ now' = now)
              => /\ dataDir'
                 /\ subjectsFile'.exists
                 /\ subjectsFile.exists => subjectsFile' = subjectsFile
                 /\ ~subjectsFile.exists => subjectsFile'.data = <<>>
                 /\ UNCHANGED <<subjDirs, indexFile, chapFiles>> ]_vars
    /\ []((pc = "idle" /\ dataDir /\ subjectsFile.exists)
             => ~ENABLED <<ensure_setup>>_vars)

\* the registry holds the empty array, which only ensure_setup writes, beside a
\* subject directory that an import which raised left behind
C13_Witness ==
    /\ pc = "idle"
    /\ dataDir
    /\ subjectsFile = JsonFile(<<>>)
    /\ subjDirs # {}

----------------------------------------------------------------------------
(* C14: what update_subject_index changes *)

\* the sort key of a title, read off the title
Key(title) == IF HasDigit(title) THEN FirstInt(title) ELSE NoDigitKey

PosOf(index, title) == CHOOSE i \in 1..Len(index) : index[i].title = title

\* the entries of other titles, in order
Others(index, title) ==
    LET Other(e) == e.title # title IN SelectSeq(index, Other)

\* C14: the index step of an import persists an index in which the entries of the
\* other titles are the ones that were there, in the same order, and the title has
\* one entry, the one given; a title that was there keeps its position and the
\* length; a new title adds one to the length and stands behind every entry whose
\* key is not greater and before every entry whose key is greater; the value
\* returned is the length persisted; the indexes of other subjects are untouched.
C14_OnlyTitleEntry ==
    [][ (pc = "index" /\ pc' = "chapter")
          => LET s == call.subject
                 old == Index(s)
                 new == indexFile'[s].data
                 t == chap_info.title
                 p == PosOf(new, t)
             IN  /\ indexFile'[s].exists
                 /\ Others(new, t) = Others(old, t)
                 /\ Cardinality({i \in 1..Len(new) : new[i].title = t}) = 1
                 /\ new[p] = chap_info
                 /\ IF t \in Titles(old)
                    THEN Len(new) = Len(old) /\ p = PosOf(old, t)
                    ELSE /\ Len(new) = Len(old) + 1
                         /\ \A i \in 1..(p - 1) : Key(new[i].title) <= Key(t)
                         /\ \A i \in (p + 1)..Len(new) : Key(new[i].title) > Key(t)
                 /\ index_length(old, chap_info) = Len(new)
                 /\ \A o \in Subjects \ {s} : indexFile'[o] = indexFile[o] ]_vars

\* an import added a title whose key an entry of another title already had: the
\* new entry stands behind that entry and before an entry with a greater key
C14_Witness ==
    /\ Completed
    /\ \E t1 \in Titles(index0) : \E t2 \in Titles(Index(call.subject)) \ Titles(index0) :
          /\ Key(t1) = Key(t2)
          /\ PosOf(Index(call.subject), t1) < PosOf(Index(call.subject), t2)
          /\ \E t3 \in Titles(Index(call.subject)) :
                /\ Key(t3) > Key(t2)
                /\ PosOf(Index(call.subject), t2) < PosOf(Index(call.subject), t3)

----------------------------------------------------------------------------
(* C15: the order of the extraction rules *)

\* the list the rules of the claim select from a content
Expected(c) ==
    IF c.kind = "dict"
    THEN IF \E i \in 1..Len(c.items) :
                c.items[i].k = "questions" /\ c.items[i].v.kind = "list"
         THEN LET i == CHOOSE i \in 1..Len(c.items) : c.items[i].k = "questions"
              IN  c.items[i].v.elems
         ELSE IF \E i \in 1..Len(c.items) : Qualifies(c.items[i].v)
         THEN LET i == CHOOSE i \in 1..Len(c.items) :
                         /\ Qualifies(c.items[i].v)
                         /\ \A j \in 1..(i - 1) : ~Qualifies(c.items[j].v)
              IN  c.items[i].v.elems
         ELSE <<>>
    ELSE IF c.kind = "list" THEN c.elems
    ELSE <<>>

\* C15: a call on readable content that selects no list returns the no-data
\* failure and no other call does; a call that reaches the chapter loop extracted
\* the list the rules select; a call that raised had selected a list with an
\* element that is not a mapping.
C15_FirstMatchWins ==
    (pc # "read" /\ call.content.kind # "unreadable") =>
        LET qs == Expected(call.content)
        IN  /\ qs = <<>> <=> result = Returned(FALSE, "no_data", <<>>)
            /\ pc = "chapter" => all_questions = qs
            /\ pc # "chapter"
                  => \/ qs = <<>>
                     \/ /\ result = Returned(FALSE, "raised", <<>>)
                        /\ \E k \in 1..Len(qs) : qs[k].kind # "dict"

\* a mapping whose "questions" list is empty was rejected although another of its
\* values is a qualifying question list
C15_Witness ==
    /\ pc = "return"
    /\ result.msg = "no_data"
    /\ call.content.kind = "dict"
    /\ \E i, j \in 1..Len(call.content.items) :
          /\ call.content.items[i].k = "questions"
          /\ call.content.items[i].v = List(<<>>)
          /\ Qualifies(call.content.items[j].v)

----------------------------------------------------------------------------
(* C16: the order of the steps of one import *)

\* the file of the chapter at the zero-based position i of the run, complete
WrittenFile(i) == ChapterFile(chapter_filename(base_time, i), chapters_map[i + 1].qs)

\* C16: inside an import, a chapter is passed to update_subject_index only by the
\* step that follows the complete write of its file, and that step is the next
\* one the import takes; an index changes on no other step; a chapter whose write
\* failed is passed over; chapter files are written only between index steps, one
\* file per step, and an index step at most removes files; the position advances
\* by one per chapter; the registry is saved by the one step that leaves the loop
\* after the last chapter, and the import returns by no other step.
C16_StepOrder ==
    [][ LET s == call.subject
            InLoop == pc = "chapter" /\ idx < Len(chapters_map)
        IN  /\ indexFile' # indexFile => pc = "index"
            /\ (pc = "index" /\ now' = now)
                  => /\ WrittenFile(idx) \in chapFiles[s]
                     /\ chap_info \in Entries(indexFile'[s].data, chap_info.title)
                     /\ chapFiles'[s] \subseteq chapFiles[s]
                     /\ pc' = "chapter"
                     /\ idx' = idx + 1
            /\ (InLoop /\ now' = now)
                  => \/ /\ pc' = "index"
                        /\ idx' = idx
                        /\ WrittenFile(idx) \in chapFiles'[s]
                        /\ \A f \in chapFiles[s] :
                               f.name # chapter_filename(base_time, idx)
                                   => f \in chapFiles'[s]
                     \/ /\ pc' = "chapter"
                        /\ idx' = idx + 1
                        /\ log_msgs'[idx'] = [ok |-> FALSE,
                                              title |-> chapters_map[idx'].label,
                                              count |-> 0]
            /\ (chapFiles' # chapFiles /\ pc # "index") => InLoop
            /\ (pc # "idle" /\ subjectsFile' # subjectsFile)
                  => pc = "chapter" /\ idx = Len(chapters_map)
            /\ (pc = "chapter" /\ pc' = "return")
                  => /\ idx = Len(chapters_map)
                     /\ subjectsFile'.exists
                     /\ s \in {subjectsFile'.data[i].name :
                                  i \in 1..Len(subjectsFile'.data)}
                     /\ UNCHANGED <<indexFile, chapFiles>>
            /\ (pc = "chapter" /\ idx = Len(chapters_map) /\ now' = now)
                  => pc' = "return" ]_vars

\* the second chapter of an import stands written and not yet indexed after the
\* write of the first chapter failed
C16_Witness ==
    /\ pc = "index"
    /\ idx = 1
    /\ ~log_msgs[1].ok
    /\ WrittenFile(idx) \in chapFiles[call.subject]
    /\ chap_info.title \notin Titles(Index(call.subject))
    /\ chapters_map[1].label \notin Titles(Index(call.subject))

----------------------------------------------------------------------------
(* C17-C20: files and entries across imports *)

\* C17: between imports, every entry of every index names a chapter file that
\* exists in the subject's directory.
C17_NoDanglingEntries ==
    pc = "idle" =>
        \A s \in Subjects : \A i \in 1..Len(Index(s)) :
            file_exists(chapFiles[s], Index(s)[i].file)

\* C18: when no import is in its chapter loop, every chapter file in a subject's
\* directory is named by an entry of the subject's index.
C18_NoOrphanFiles ==
    pc \in {"idle", "return"} =>
        \A s \in Subjects : \A f \in chapFiles[s] :
            \E i \in 1..Len(Index(s)) : Index(s)[i].file = f.name

\* an import returned that re-imported a title in a later second: the file the
\* index named for the title before is gone and the new one is there
C18_Witness ==
    /\ Completed
    /\ \E t \in Titles(index0) \cap Titles(Index(call.subject)) :
          /\ EntryOf(index0, t).file # EntryOf(Index(call.subject), t).file
          /\ EntryOf(index0, t).id[2] < base_time
          /\ ~file_exists(chapFiles[call.subject], EntryOf(index0, t).file)
          /\ file_exists(chapFiles[call.subject], EntryOf(Index(call.subject), t).file)

\* C19: between imports, no two entries of the registry have the same id and no
\* two entries of one index have the same id.
C19_IdsUnique ==
    pc = "idle" =>
        /\ \A i, j \in 1..Len(Registry) : i # j => Registry[i].id # Registry[j].id
        /\ \A s \in Subjects : \A i, j \in 1..Len(Index(s)) :
              i # j => Index(s)[i].id # Index(s)[j].id

\* C20: no step of an import changes the index or the chapter files of a subject
\* other than the one imported into, and the registry step keeps every entry of
\* another name as it was.
C20_OtherSubjectsUntouched ==
    [][ pc # "idle"
          => /\ \A o \in Subjects \ {call.subject} :
                   indexFile'[o] = indexFile[o] /\ chapFiles'[o] = chapFiles[o]
             /\ \A i \in 1..Len(Registry) :
                   Registry[i].name # call.subject
                       => /\ subjectsFile'.exists
                          /\ \E j \in 1..Len(subjectsFile'.data) :
                                 subjectsFile'.data[j] = Registry[i] ]_vars

====
